---- MODULE Spec2Model ----
(***************************************************************************)
(* A model of Uniasset::ImageAsset                                         *)
(* (Native/src/uniasset/image/ImageAsset.cpp).                             *)
(*                                                                         *)
(* An asset is a pixel buffer (pointer + origin tag), its metadata         *)
(* (width_, height_, channelCount_) and its error slot.  Buffers live in   *)
(* a heap of addressed blocks, so that ownership, release and aliasing     *)
(* are visible.  Every public method is one action; the decoders (stb,     *)
(* libwebp, turbojpeg) and the file system are the environment: their      *)
(* outcome (success, or the stage at which they fail) is an input.         *)
(***************************************************************************)
EXTENDS Integers, Sequences, FiniteSets, TLC

VARIABLES
    assets,     \* the two asset slots of the caller: "a", and "c" for a clone
    heap,       \* the blocks of the allocators
    mem,        \* what went wrong with the heap so far, and the last call's counts
                \* and trace (the decode branches it entered, the handles it holds)
    lastOp,     \* the last call: its name, its asset, how it ended
    ret,        \* what the last call returned
    dest,       \* the bytes the last call (CopyTo) wrote to the caller's memory
    crashed,    \* the process died
    calls       \* the number of calls made so far

vars == <<assets, heap, mem, lastOp, ret, dest, crashed, calls>>

(***************************************************************************)
(* Bounds of the model.                                                    *)
(***************************************************************************)
\* largest width / height of an input image and of a Clip / Resize argument
MaxDim == 2

\* the runs of the model are the sequences of at most MaxCalls calls
MaxCalls == 3

\* Clip and Resize take any int32; the model draws them from -1..MaxDim
Dims == 0..MaxDim
PosDims == 1..MaxDim
Args == -1..MaxDim

\* a byte the program reads before writing it, or outside a block: its value is
\* not determined by the program, and stands apart from every byte of an image
Indeterminate == -1

NULL == 0
\* one buffer per asset, plus the blocks a call holds while it runs (the file's
\* bytes, the decoder's destination, the new buffer before the old one is released)
Addrs == 1..4
AssetIds == {"a", "c"}

ERROR_STR_IMAGE_NOT_LOADED == "image asset is not loaded"
ERROR_STR_IMAGE_SIZE_OVERFLOW == "range exceeds image size"

(***************************************************************************)
(* The heap: new[] / stbi allocation and the matching release.             *)
(***************************************************************************)
FreeBlock == [live |-> FALSE, by |-> "none", bytes |-> <<>>]

\* the address operator new / stbi's malloc hands out
FreshAddr(h) == CHOOSE p \in Addrs : ~h[p].live /\ \A q \in Addrs : ~h[q].live => p <= q

\* X is the machine state an operation works on: [a: the asset, heap, mem]
HeapAlloc(X, allocator, bytes) ==
    LET p == FreshAddr(X.heap)
    IN  [x |-> [X EXCEPT !.heap[p] = [live |-> TRUE, by |-> allocator, bytes |-> bytes],
                         !.mem.allocs = @ + 1],
         p |-> p]

\* delete[] p (routine "delete[]") or stbi_image_free(p) (routine "stbi_image_free")
Matches(allocator, routine) ==
    \/ allocator = "new[]" /\ routine = "delete[]"
    \/ allocator = "stbi_malloc" /\ routine = "stbi_image_free"

HeapFree(X, p, routine) ==
    IF ~X.heap[p].live
    THEN [X EXCEPT !.mem.doubleFree = TRUE, !.mem.frees = @ + 1]
    ELSE [X EXCEPT !.heap[p] = FreeBlock,
                   !.mem.frees = @ + 1,
                   !.mem.badFree = @ \/ ~Matches(X.heap[p].by, routine)]

\* the destructor of std::unique_ptr<uint8_t>: delete p, on a block that came from
\* new uint8_t[n].  The builds release the block; the mismatch is recorded.
UniquePtrDelete(X, p) ==
    IF ~X.heap[p].live
    THEN [X EXCEPT !.mem.doubleFree = TRUE, !.mem.frees = @ + 1]
    ELSE [X EXCEPT !.heap[p] = FreeBlock,
                   !.mem.frees = @ + 1,
                   !.mem.scalarDelete = @ \/ X.heap[p].by = "new[]"]

\* the call enters the decode branch fn
Enter(X, fn) == [X EXCEPT !.mem.entered = Append(@, fn)]

\* the call acquires handle h: a FILE* from fopen, a tjhandle from tjInitTransform
\* or tjInitDecompress, the block tjTransform allocates for its output
Acquire(X, h) == [X EXCEPT !.mem.open = @ \cup {h}]

\* fclose / tjDestroy / tjFree of handle h
Release(X, h) ==
    IF h \in X.mem.open
    THEN [X EXCEPT !.mem.open = @ \ {h}]
    ELSE [X EXCEPT !.mem.twice = TRUE]

\* a read of byte i (0-based) of block p
Rd(X, p, i) ==
    IF p # NULL /\ X.heap[p].live /\ 0 <= i /\ i < Len(X.heap[p].bytes)
    THEN X.heap[p].bytes[i + 1]
    ELSE Indeterminate

\* the read stays inside a live block
InBounds(X, p, i) == p # NULL /\ X.heap[p].live /\ 0 <= i /\ i < Len(X.heap[p].bytes)

\* an access to a block that was released
Touch(X, p) == IF p # NULL /\ ~X.heap[p].live THEN [X EXCEPT !.mem.uaf = TRUE] ELSE X

(***************************************************************************)
(* The asset and its error slot.                                           *)
(***************************************************************************)
\* ImageAsset::ImageAsset() = default, with the members' initialisers
NewAsset ==
    [alive |-> TRUE, buffer |-> NULL, source |-> "Self",
     width |-> 0, height |-> 0, channelCount |-> 0, error |-> ""]

\* the slot of an asset that is not constructed (or was deleted)
NoAsset ==
    [alive |-> FALSE, buffer |-> NULL, source |-> "Self",
     width |-> 0, height |-> 0, channelCount |-> 0, error |-> ""]

\* errorHandler_.Clear()
Clear(X) == [X EXCEPT !.a.error = ""]

\* errorHandler_.SetError(msg)
SetError(X, msg) == [X EXCEPT !.a.error = msg]

\* what an operation hands back: the machine state, how the call ended
\* ("ok", "error": SetError was called, "throw": std::bad_alloc left the call,
\* "crash": the process died), the returned value and the bytes CopyTo wrote
Res(X, out, r, d) == [x |-> X, out |-> out, ret |-> r, dest |-> d]

Ok(X) == Res(X, "ok", "void", "untouched")
Failed(X, msg) == Res(SetError(X, msg), "error", "void", "untouched")
Threw(X) == Res(X, "throw", "void", "untouched")
Crashed(X) == Res(X, "crash", "void", "untouched")

\* ImageAsset::AllocateBuffer(size): the Buffer {pointer, Self}; fill is what the
\* fresh block holds before anything is written.  size is a size_t: a negative
\* int converts to a huge value and operator new[] throws (callers test size < 0).
AllocateBuffer(X, size, fill) ==
    IF size = 0
    THEN [x |-> X, buffer |-> NULL, source |-> "Self"]
    ELSE LET al == HeapAlloc(X, "new[]", [i \in 1..size |-> fill])
         IN  [x |-> al.x, buffer |-> al.p, source |-> "Self"]

\* ReleaseBuffer without its last line (buffer.buffer = nullptr): the asset keeps
\* the address of the block it released
ReleaseBuffer_KeepsPointer(X) ==
    IF X.a.buffer = NULL THEN X
    ELSE LET routine == IF X.a.source = "Self" THEN "delete[]" ELSE "stbi_image_free"
         IN  HeapFree(X, X.a.buffer, routine)

\* ImageAsset::ReleaseBuffer(buffer_)
ReleaseBuffer(X) ==
    IF X.a.buffer = NULL THEN X
    ELSE LET routine == IF X.a.source = "Self" THEN "delete[]" ELSE "stbi_image_free"
         IN  [HeapFree(X, X.a.buffer, routine) EXCEPT !.a.buffer = NULL]

\* buffer_ = {p, source}
SetBuffer(X, p, source) == [X EXCEPT !.a.buffer = p, !.a.source = source]

\* memory block p holds bytes
Store(X, p, bytes) == IF p = NULL THEN X ELSE [Touch(X, p) EXCEPT !.heap[p].bytes = bytes]

(***************************************************************************)
(* Load(pixelData, size, width, height, channelCount)                      *)
(***************************************************************************)
\* pixelData is the caller's block of `size` bytes; size < 0 stands for the
\* size_t a negative int converts to (Clone passes width_*height_*channelCount_).
\* The fresh block is overwritten whole by the memcpy before anything reads it.
LoadPixels(X0, pixelData, size, width, height, channelCount) ==
    LET X1 == ReleaseBuffer(Clear(X0))
    IN  IF size < 0 THEN Threw(X1)
        ELSE LET nb == AllocateBuffer(X1, size, 0)
                 X2 == SetBuffer(nb.x, nb.buffer, nb.source)
                 X3 == Store(X2, X2.a.buffer, [i \in 1..size |-> pixelData[i]])
             IN  Ok([X3 EXCEPT !.a.width = width, !.a.height = height,
                               !.a.channelCount = channelCount])

(***************************************************************************)
(* GetWidth / GetHeight / GetChannelCount                                  *)
(***************************************************************************)
\* GetWidth without the test of buffer_.buffer: it hands out width_ of an asset
\* that holds no image
GetWidth_NoLoadedTest(X0) ==
    LET X1 == Clear(X0)
    IN  Res(X1, "ok", X1.a.width, "untouched")

GetWidth(X0) ==
    LET X1 == Clear(X0)
    IN  IF X1.a.buffer = NULL
        THEN Res(SetError(X1, ERROR_STR_IMAGE_NOT_LOADED), "error", -1, "untouched")
        ELSE Res(X1, "ok", X1.a.width, "untouched")

GetHeight(X0) ==
    LET X1 == Clear(X0)
    IN  IF X1.a.buffer = NULL
        THEN Res(SetError(X1, ERROR_STR_IMAGE_NOT_LOADED), "error", -1, "untouched")
        ELSE Res(X1, "ok", X1.a.height, "untouched")

GetChannelCount(X0) ==
    LET X1 == Clear(X0)
    IN  IF X1.a.buffer = NULL
        THEN Res(SetError(X1, ERROR_STR_IMAGE_NOT_LOADED), "error", -1, "untouched")
        ELSE Res(X1, "ok", X1.a.channelCount, "untouched")

(***************************************************************************)
(* Unload, CopyTo                                                          *)
(***************************************************************************)
\* Unload without ReleaseBuffer(buffer_): the metadata are zeroed, the buffer stays
Unload_KeepsBuffer(X0) ==
    LET X1 == Clear(X0)
    IN  IF X1.a.buffer = NULL
        THEN Failed(X1, ERROR_STR_IMAGE_NOT_LOADED)
        ELSE Ok([X1 EXCEPT !.a.width = 0, !.a.height = 0, !.a.channelCount = 0])

\* Unload without the three assignments that zero width_, height_, channelCount_
Unload_KeepsMetadata(X0) ==
    LET X1 == Clear(X0)
    IN  IF X1.a.buffer = NULL
        THEN Failed(X1, ERROR_STR_IMAGE_NOT_LOADED)
        ELSE Ok(ReleaseBuffer(X1))

\* Unload without errorHandler_.Clear(): the message of an earlier call survives
Unload_NoClear(X0) ==
    IF X0.a.buffer = NULL
    THEN Failed(X0, ERROR_STR_IMAGE_NOT_LOADED)
    ELSE Ok([ReleaseBuffer(X0) EXCEPT !.a.width = 0, !.a.height = 0, !.a.channelCount = 0])

Unload(X0) ==
    LET X1 == Clear(X0)
    IN  IF X1.a.buffer = NULL
        THEN Failed(X1, ERROR_STR_IMAGE_NOT_LOADED)
        ELSE Ok([ReleaseBuffer(X1) EXCEPT !.a.width = 0, !.a.height = 0,
                                          !.a.channelCount = 0])

\* memcpy(buffer, buffer_.buffer, width_ * height_ * channelCount_): a count that
\* is negative (a huge size_t) or runs past the block is undefined behaviour: the
\* process dies (ub = "crash") or the bytes past the block are indeterminate
CopyTo(X0, ub) ==
    LET X1 == Clear(X0)
        n  == X1.a.width * X1.a.height * X1.a.channelCount
        p  == X1.a.buffer
    IN  IF p = NULL
        THEN Failed(X1, ERROR_STR_IMAGE_NOT_LOADED)
        ELSE IF n < 0 \/ (n > 0 /\ ~InBounds(X1, p, n - 1) /\ ub = "crash")
             THEN Crashed(Touch(X1, p))
             ELSE Res(Touch(X1, p), "ok", "void", [i \in 1..n |-> Rd(X1, p, i - 1)])

(***************************************************************************)
(* Clip                                                                    *)
(***************************************************************************)
\* the range test of lines 429-432; TRUE when the call is rejected
ClipOutOfRange(a, x, y, width, height) ==
    LET startLine  == a.height - y - height
        endLine    == a.height - y
        startPixel == x
        endPixel   == x + width
    IN  \/ startLine < 0 \/ startLine > a.height
        \/ endLine < 0 \/ endLine > a.height
        \/ startPixel < 0 \/ startPixel > a.width
        \/ endPixel < 0 \/ endPixel > a.width

\* byte k (0-based) of the new buffer: row iy = k \div newStrideSize is copied
\* from buffer_.buffer + srcStrideSize * (iy + startLine) + x * channelCount_
ClipSrcIndex(a, x, y, width, height, k) ==
    LET srcStrideSize == a.width * a.channelCount
        newStrideSize == width * a.channelCount
        startLine     == a.height - y - height
        iy            == k \div newStrideSize
    IN  srcStrideSize * (iy + startLine) + x * a.channelCount + (k % newStrideSize)

Clip(X0, x, y, width, height, ub) ==
    LET X1   == Clear(X0)
        a    == X1.a
        size == width * height * a.channelCount
    IN  IF a.buffer = NULL THEN Failed(X1, ERROR_STR_IMAGE_NOT_LOADED)
        ELSE IF ClipOutOfRange(a, x, y, width, height)
        THEN Failed(X1, ERROR_STR_IMAGE_SIZE_OVERFLOW)
        ELSE IF size < 0 THEN Threw(X1)
        ELSE LET nb     == AllocateBuffer(X1, size, Indeterminate)
                 copied == height > 0 /\ width > 0 /\ size > 0
                 oob    == copied /\ \E k \in 0..(size - 1) :
                               ~InBounds(X1, a.buffer, ClipSrcIndex(a, x, y, width, height, k))
                 bytes  == IF copied
                           THEN [k \in 1..size |->
                                   Rd(X1, a.buffer, ClipSrcIndex(a, x, y, width, height, k - 1))]
                           ELSE [k \in 1..size |-> Indeterminate]
                 X2     == Store(Touch(nb.x, a.buffer), nb.buffer, bytes)
                 X3     == SetBuffer(ReleaseBuffer(X2), nb.buffer, nb.source)
             IN  IF oob /\ ub = "crash" THEN Crashed(X1)
                 ELSE Ok([X3 EXCEPT !.a.width = width, !.a.height = height])

(***************************************************************************)
(* Resize                                                                  *)
(***************************************************************************)
\* An IEEE single is [m, e], the value m * 2^e with 2^23 <= m < 2^24 (or m = 0).
\* RoundToFloat rounds n * 2^e, plus a non-zero fraction of 2^e below it when
\* sticky, to the nearest single, ties to even.  With sticky, n >= 2^24.
RECURSIVE RoundToFloat(_, _, _)
RoundToFloat(n, e, sticky) ==
    IF n = 0 THEN [m |-> 0, e |-> 0]
    ELSE IF n < 2^23 THEN RoundToFloat(2 * n, e - 1, sticky)
    ELSE IF n < 2^24 THEN [m |-> n, e |-> e]
    ELSE IF n >= 2^25 THEN RoundToFloat(n \div 2, e + 1, sticky \/ n % 2 = 1)
    ELSE LET m  == n \div 2
             up == n % 2 = 1 /\ (sticky \/ m % 2 = 1)
             r  == IF up THEN m + 1 ELSE m
         IN  IF r = 2^24 THEN [m |-> 2^23, e |-> e + 2] ELSE [m |-> r, e |-> e + 1]

\* (float) n, for 0 <= n < 2^31
IntToFloat(n) == RoundToFloat(n, 0, FALSE)

\* the first bits quotient bits of a / b by long division: [q, rem]
RECURSIVE DivBits(_, _, _, _)
DivBits(rem, b, bits, q) ==
    IF bits = 0 THEN [q |-> q, rem |-> rem]
    ELSE IF rem >= b THEN DivBits(2 * (rem - b), b, bits - 1, 2 * q + 1)
    ELSE DivBits(2 * rem, b, bits - 1, 2 * q)

\* a / b in single precision (b # 0): 27 bits of the mantissas' quotient, rounded
FloatDiv(a, b) ==
    IF a.m = 0 THEN a
    ELSE LET d == DivBits(a.m, b.m, 27, 0)
         IN  RoundToFloat(d.q, a.e - b.e - 26, d.rem # 0)

\* a * b in single precision: the 48-bit product of the mantissas in 12-bit
\* limbs, its upper bits rounded
FloatMul(a, b) ==
    IF a.m = 0 \/ b.m = 0 THEN [m |-> 0, e |-> 0]
    ELSE LET a1  == a.m \div 4096
             a0  == a.m % 4096
             b1  == b.m \div 4096
             b0  == b.m % 4096
             mid == a1 * b0 + a0 * b1
             low == (mid % 4096) * 4096 + a0 * b0
             lo  == low % 2^24
             hi  == a1 * b1 + mid \div 4096 + low \div 2^24
         IN  RoundToFloat(hi * 8 + lo \div 2^21, a.e + b.e + 21, lo % 2^21 # 0)

\* (int) f, for 0 <= f < 2^31: the fraction is dropped
FloatToInt(f) ==
    IF f.m = 0 THEN 0
    ELSE IF f.e >= 0 THEN f.m * 2^f.e
    ELSE IF f.e < -24 THEN 0
    ELSE f.m \div 2^(-f.e)

\* scaleX = (float) srcWidth / (float) destWidth; px = (int) (ix * scaleX), the
\* same for y.  A negative src is the uint32 it converts to: the scale is about
\* 2^32 / dest, only i = 0 maps inside the image ("wild" otherwise).
ScaleCoord(i, src, dst) ==
    IF src >= 0
    THEN FloatToInt(FloatMul(IntToFloat(i), FloatDiv(IntToFloat(src), IntToFloat(dst))))
    ELSE IF i = 0 THEN 0 ELSE -1

\* ScaleImage<PixelSize>: byte k (0-based) of destBuffer is read from this byte of
\* srcBuffer (-1: an address far outside the block)
ScaleSrcIndex(srcWidth, srcHeight, destWidth, destHeight, PixelSize, k) ==
    LET destPixel == k \div PixelSize
        i  == k % PixelSize
        ix == destPixel % destWidth
        iy == destPixel \div destWidth
        px == ScaleCoord(ix, srcWidth, destWidth)
        py == ScaleCoord(iy, srcHeight, destHeight)
    IN  IF px < 0 \/ py < 0 \/ (srcWidth < 0 /\ py > 0) THEN -1
        ELSE (srcWidth * py + px) * PixelSize + i

Resize(X0, width, height, ub) ==
    LET X1   == Clear(X0)
        a    == X1.a
        size == width * height * a.channelCount
    IN  IF a.buffer = NULL THEN Failed(X1, ERROR_STR_IMAGE_NOT_LOADED)
        ELSE IF size < 0 THEN Threw(X1)
        ELSE LET nb     == AllocateBuffer(X1, size, Indeterminate)
                 scaled == a.channelCount \in {3, 4} /\ size > 0
                 \* destWidth, destHeight are uint32: with both negative the loops
                 \* write far outside the new block
                 wild   == scaled /\ width < 0
                 oob    == scaled /\ ~wild /\ \E k \in 0..(size - 1) :
                               ~InBounds(X1, a.buffer,
                                   ScaleSrcIndex(a.width, a.height, width, height, a.channelCount, k))
                 bytes  == IF scaled /\ ~wild
                           THEN [k \in 1..size |->
                                   Rd(X1, a.buffer,
                                      ScaleSrcIndex(a.width, a.height, width, height,
                                                    a.channelCount, k - 1))]
                           ELSE [k \in 1..size |-> Indeterminate]
                 X2     == Store(Touch(nb.x, a.buffer), nb.buffer, bytes)
                 X3     == [X2 EXCEPT !.a.width = width, !.a.height = height]
             IN  IF wild \/ (oob /\ ub = "crash") THEN Crashed(X1)
                 ELSE Ok(SetBuffer(ReleaseBuffer(X3), nb.buffer, nb.source))

(***************************************************************************)
(* The decode pipeline.  A file is what the decoders make of its bytes:    *)
(* [magic: the signature of its first bytes, w, h, c: the picture's size   *)
(* and (for stb) channels, fail: the decoder stage that fails, or "none"]. *)
(***************************************************************************)
\* Utils::IsWebPFileData(data, size): "RIFF", four bytes of length, "WEBP"
IsWebPFileData(f, size) == size >= 12 /\ f.magic = "RIFF....WEBP"

\* Utils::IsJpegFileData(data, size): the start-of-image marker FF D8 FF
IsJpegFileData(f, size) == size >= 3 /\ f.magic = "FFD8FF"

\* the number of bytes of a file: none for the empty file, more than the 16 of
\* the magic number buffer for a file that decodes, fewer for one that was cut
\* short (and fails in its decoder)
FileSize(f) ==
    IF f.magic = "" THEN 0
    ELSE IF f.fail = "none" THEN 16 + f.w * f.h
    ELSE 12

\* a magic number buffer of 8 bytes
ReadSize_Eight(fileSize) == IF fileSize > 8 THEN 8 ELSE fileSize

\* readSize = fileSize > sizeof(magicNumberBuffer) ? sizeof(magicNumberBuffer) : fileSize
ReadSize(fileSize) == IF fileSize > 16 THEN 16 ELSE fileSize

\* the picture's byte at row r (0 = top), byte j of the row, for a decoder base
PictureByte(f, c, base, r, j) == base + r * (f.w * c) + j + 1

\* the bytes of a block of f.h rows in which a decoder has written row r of the
\* picture (0 = top) at byte offset first + r * stride
RowsAt(f, c, base, first, stride) ==
    [k \in 1..(f.w * f.h * c) |->
        LET r == CHOOSE q \in 0..(f.h - 1) :
                     first + q * stride <= k - 1 /\ k - 1 < first + q * stride + f.w * c
        IN  PictureByte(f, c, base, r, (k - 1) - (first + r * stride))]

\* stbi_load / stbi_load_from_memory: stb decodes the rows top first, and swaps
\* them top for bottom when stbi_set_flip_vertically_on_load(true) was called
StbDecoded(f, flip) ==
    IF flip
    THEN [k \in 1..(f.w * f.h * f.c) |->
            LET row == (k - 1) \div (f.w * f.c)
            IN  RowsAt(f, f.c, 50, 0, f.w * f.c)[(f.h - 1 - row) * (f.w * f.c)
                                                  + ((k - 1) % (f.w * f.c)) + 1]]
    ELSE RowsAt(f, f.c, 50, 0, f.w * f.c)

\* WebPDecode into external memory: row r of the picture goes to rgba + r * stride
WebPDecoded(f, rgba, stride) == RowsAt(f, 4, 100, rgba, stride)

\* tjTransform with op, then tjDecompress2 with pitch 0 and without
\* TJFLAG_BOTTOMUP: the rows of the transformed picture, top first; TJXOP_VFLIP
\* makes row r of the transformed picture row h - 1 - r of the original
JpegDecoded(f, op) ==
    [k \in 1..(f.w * f.h * 3) |->
        LET row == (k - 1) \div (f.w * 3)
        IN  PictureByte(f, 3, 150, IF op = "TJXOP_VFLIP" THEN f.h - 1 - row ELSE row,
                        (k - 1) % (f.w * 3))]

\* LoadFile handing stb's block over as {pointer, Self}
LoadFile_TaggedSelf(X0, f) ==
    LET X1 == Clear(Enter(X0, "LoadFile"))
        Xh == [X1 EXCEPT !.a.width = f.w, !.a.height = f.h, !.a.channelCount = f.c]
    IN  IF f.fail = "header" THEN Failed(X1, "unknown image type")
        ELSE IF f.fail = "body" THEN Failed(Xh, "bad file")
        ELSE LET al == HeapAlloc(Xh, "stbi_malloc", StbDecoded(f, TRUE))
             IN  Ok(SetBuffer(ReleaseBuffer(al.x), al.p, "Self"))

\* stb_image writes *x, *y, *comp once the header is parsed, so a failure in the
\* body ("body") leaves them written and one before it ("header") does not
LoadFile(X0, f) ==
    LET X1 == Clear(Enter(X0, "LoadFile"))
        Xh == [X1 EXCEPT !.a.width = f.w, !.a.height = f.h, !.a.channelCount = f.c]
    IN  IF f.fail = "header" THEN Failed(X1, "unknown image type")
        ELSE IF f.fail = "body" THEN Failed(Xh, "bad file")
        ELSE LET al == HeapAlloc(Xh, "stbi_malloc", StbDecoded(f, TRUE))
             IN  Ok(SetBuffer(ReleaseBuffer(al.x), al.p, "Stb"))

\* io = "open": stbi_load cannot open the path
LoadFromFile(X0, f, io) ==
    LET X1 == Clear(Enter(X0, "LoadFromFile"))
        Xh == [X1 EXCEPT !.a.width = f.w, !.a.height = f.h, !.a.channelCount = f.c]
    IN  IF io # "none" THEN Failed(X1, "can't fopen")
        ELSE IF f.fail = "header" THEN Failed(X1, "unknown image type")
        ELSE IF f.fail = "body" THEN Failed(Xh, "bad file")
        ELSE LET al == HeapAlloc(Xh, "stbi_malloc", StbDecoded(f, TRUE))
             IN  Ok(SetBuffer(ReleaseBuffer(al.x), al.p, "Stb"))

\* LoadWebP with output.u.RGBA.rgba = buffer.get() and stride = strideSize: the
\* decoder fills the destination from its first row down
LoadWebP_TopDown(X0, f) ==
    LET X1 == Clear(Enter(X0, "LoadWebP"))
    IN  IF f.fail = "info" THEN Failed(X1, "Failed to get webp info")
        ELSE LET X2 == [X1 EXCEPT !.a.width = f.w, !.a.height = f.h, !.a.channelCount = 4]
                 al == HeapAlloc(X2, "new[]", [i \in 1..(f.w * f.h * 4) |-> 0])
                 Xf == UniquePtrDelete(al.x, al.p)
             IN  IF f.fail = "config" THEN Failed(Xf, "Failed to initialize decoder config")
                 ELSE IF f.fail = "features" THEN Failed(Xf, "Failed to call WebPGetFeatures: 3")
                 ELSE IF f.fail = "decode" THEN Failed(Xf, "Failed to call WebPDecode: 3")
                 ELSE LET strideSize == 4 * f.w
                          X3 == Store(al.x, al.p,
                                      WebPDecoded(f, 0, strideSize))
                      IN  Ok(SetBuffer(ReleaseBuffer(X3), al.p, "Self"))

\* the destination new uint8_t[width_ * height_ * channelCount_] is never read
\* before the decoder has written it
LoadWebP(X0, f) ==
    LET X1 == Clear(Enter(X0, "LoadWebP"))
    IN  IF f.fail = "info" THEN Failed(X1, "Failed to get webp info")
        ELSE LET X2 == [X1 EXCEPT !.a.width = f.w, !.a.height = f.h, !.a.channelCount = 4]
                 al == HeapAlloc(X2, "new[]", [i \in 1..(f.w * f.h * 4) |-> 0])
                 Xf == UniquePtrDelete(al.x, al.p)
             IN  IF f.fail = "config" THEN Failed(Xf, "Failed to initialize decoder config")
                 ELSE IF f.fail = "features" THEN Failed(Xf, "Failed to call WebPGetFeatures: 3")
                 ELSE IF f.fail = "decode" THEN Failed(Xf, "Failed to call WebPDecode: 3")
                 ELSE LET strideSize == 4 * f.w
                          X3 == Store(al.x, al.p,
                                      WebPDecoded(f, (f.h - 1) * strideSize, -strideSize))
                      IN  Ok(SetBuffer(ReleaseBuffer(X3), al.p, "Self"))

\* ~MemoryPtr / ~ProcessorPtr and unique_ptr::reset: the deleter is called on the
\* pointer the unique_ptr holds, if it holds one
TurboJpegMemoryDeleter(X, obj) == IF obj = "nullptr" THEN X ELSE Release(X, obj)

TurboJpegHandleDeleter(X, obj) == IF obj = "nullptr" THEN X ELSE Release(X, obj)

\* f.fail names the turbojpeg call that fails.  tjTransform allocates its output
\* block while it runs: it fails before it has one ("transform") or after
\* ("transformed": *dstBufs is set and the call returns -1, as it does for a file
\* that ends early).  The locals are destroyed on every return: transformedData
\* first, then processor.
LoadJpeg(X0, f) ==
    LET X1 == Clear(Enter(X0, "LoadJpeg"))
        \* processorRaw = tjInitTransform(); processor.reset(processorRaw)
        Xt == TurboJpegHandleDeleter(Acquire(X1, "tjInitTransform"), "nullptr")
        \* tjTransform(..., &transformedDataRaw, ...)
        Xr == Acquire(Xt, "transformedDataRaw")
        \* transformedData.reset(transformedDataRaw)
        Xb == TurboJpegMemoryDeleter(Xr, "nullptr")
        \* processorRaw = tjInitDecompress(); processor.reset(processorRaw)
        Xd == TurboJpegHandleDeleter(Acquire(Xb, "tjInitDecompress"), "tjInitTransform")
        Return(X, transformedData, processor) ==
            TurboJpegHandleDeleter(TurboJpegMemoryDeleter(X, transformedData), processor)
    IN  IF f.fail = "initTransform"
        THEN Failed(Return(X1, "nullptr", "nullptr"), "tjInitTransform failed")
        ELSE IF f.fail = "transform"
        THEN Failed(Return(Xt, "nullptr", "tjInitTransform"), "tjTransform failed")
        ELSE IF f.fail = "transformed"
        THEN Failed(Return(Xr, "nullptr", "tjInitTransform"), "tjTransform failed")
        ELSE IF f.fail = "initDecompress"
        THEN Failed(Return(Xb, "transformedDataRaw", "tjInitTransform"),
                    "tjInitDecompress failed")
        ELSE IF f.fail = "header"
        THEN Failed(Return(Xd, "transformedDataRaw", "tjInitDecompress"),
                    "tjDecompressHeader3 failed")
        ELSE LET X2 == [Xd EXCEPT !.a.width = f.w, !.a.height = f.h, !.a.channelCount = 3]
                 al == HeapAlloc(X2, "new[]", [i \in 1..(f.w * f.h * 3) |-> 0])
             IN  IF f.fail = "decompress"
                 THEN Failed(Return(UniquePtrDelete(al.x, al.p),
                                    "transformedDataRaw", "tjInitDecompress"),
                             "tjDecompress2 failed")
                 ELSE LET X3 == Store(al.x, al.p, JpegDecoded(f, "TJXOP_VFLIP"))
                          X4 == SetBuffer(ReleaseBuffer(X3), al.p, "Self")
                      IN  Ok(Return(X4, "transformedDataRaw", "tjInitDecompress"))

\* ~CFilePtr and CFilePtr::reset: Utils::CFileDeleter closes the file the pointer holds
CFileDeleter(X, file) == IF file = "nullptr" THEN X ELSE Release(X, file)

\* the open / seek / ftell / seek / read sequence of Load(path), LoadWebPFromFile
\* and LoadJpegFromFile; io names the step that fails, what names the caller
IoError(io, what) ==
    IF io = "open" THEN "No such file or directory"
    ELSE what \o " (" \o
         (IF io = "seekEnd" THEN "seek to end"
          ELSE IF io = "empty" THEN "empty file"
          ELSE IF io = "seekBegin" THEN "seek to begin"
          ELSE "read file") \o ")"

LoadWebPFromFile(X0, f, io) ==
    LET X1 == Clear(Enter(X0, "LoadWebPFromFile"))
        \* fileRaw = fopen(path, "rb"); CFilePtr file(fileRaw, Utils::CFileDeleter)
        Xo == Acquire(X1, "FILE")
        rd == HeapAlloc(Xo, "new[]", <<>>)
    IN  IF io = "open"
        THEN Failed(X1, IoError(io, "Failed to load webp"))
        ELSE IF io \in {"seekEnd", "empty", "seekBegin"}
        THEN Failed(CFileDeleter(Xo, "FILE"), IoError(io, "Failed to load webp"))
        ELSE IF io = "read"
        THEN Failed(CFileDeleter(UniquePtrDelete(rd.x, rd.p), "FILE"),
                    IoError(io, "Failed to load webp"))
        ELSE LET r == LoadWebP(rd.x, f)
             IN  [r EXCEPT !.x = CFileDeleter(UniquePtrDelete(r.x, rd.p), "FILE")]

LoadJpegFromFile(X0, f, io) ==
    LET X1 == Clear(Enter(X0, "LoadJpegFromFile"))
        \* fileRaw = fopen(path, "rb"); CFilePtr file(fileRaw, Utils::CFileDeleter)
        Xo == Acquire(X1, "FILE")
        rd == HeapAlloc(Xo, "new[]", <<>>)
    IN  IF io = "open"
        THEN Failed(X1, IoError(io, "Failed to load jpeg"))
        ELSE IF io \in {"seekEnd", "empty", "seekBegin"}
        THEN Failed(CFileDeleter(Xo, "FILE"), IoError(io, "Failed to load jpeg"))
        ELSE IF io = "read"
        THEN Failed(CFileDeleter(UniquePtrDelete(rd.x, rd.p), "FILE"),
                    IoError(io, "Failed to load jpeg"))
        ELSE LET r == LoadJpeg(rd.x, f)
             IN  [r EXCEPT !.x = CFileDeleter(UniquePtrDelete(r.x, rd.p), "FILE")]

\* Load(fileData, size)
LoadBytes(X0, f) ==
    LET X1   == Clear(X0)
        size == FileSize(f)
    IN  IF IsWebPFileData(f, size) THEN LoadWebP(X1, f)
        ELSE IF IsJpegFileData(f, size) THEN LoadJpeg(X1, f)
        ELSE LoadFile(X1, f)

\* Load(path): io1 is the step of the format detection that fails, io2 the step
\* of the branch's own reading of the file
LoadPath(X0, f, io1, io2) ==
    LET X1       == Clear(X0)
        \* fileRaw = fopen(path.data(), "rb"); CFilePtr file(fileRaw, Utils::CFileDeleter)
        Xo       == Acquire(X1, "FILE")
        fileSize == FileSize(f)
        readSize == ReadSize(fileSize)
        \* file.reset(nullptr); at the return file holds nothing
        Xc       == CFileDeleter(CFileDeleter(Xo, "FILE"), "nullptr")
    IN  IF io1 = "open"
        THEN Failed(X1, IoError(io1, "failed to detect format"))
        ELSE IF io1 = "seekEnd"
        THEN Failed(CFileDeleter(Xo, "FILE"), IoError(io1, "failed to detect format"))
        ELSE IF fileSize = 0
        THEN Failed(CFileDeleter(Xo, "FILE"), IoError("empty", "failed to detect format"))
        ELSE IF io1 = "seekBegin"
        THEN Failed(CFileDeleter(Xo, "FILE"), IoError(io1, "failed to detect format"))
        ELSE IF io1 = "read"
        THEN Failed(CFileDeleter(Xo, "FILE"), IoError(io1, "Failed to detect format"))
        ELSE IF IsWebPFileData(f, readSize) THEN LoadWebPFromFile(Xc, f, io2)
        ELSE IF IsJpegFileData(f, readSize) THEN LoadJpegFromFile(Xc, f, io2)
        ELSE LoadFromFile(Xc, f, io2)

(***************************************************************************)
(* Clone, the destructor                                                   *)
(***************************************************************************)
\* a Clone that copies the members instead of the pixels: the new asset points at
\* the source's block
Clone_Shallow(S, ub) == Ok([S EXCEPT !.a.error = ""])

\* ImageAsset::Clone() const: src is the machine state with a = the cloned asset;
\* the result's a is the new asset.  Load reads size bytes of the source buffer.
Clone(S, ub) ==
    LET s    == S.a
        size == s.width * s.height * s.channelCount
        X0   == [S EXCEPT !.a = NewAsset]
        data == [i \in 1..size |-> Rd(S, s.buffer, i - 1)]
        oob  == size > 0 /\ ~InBounds(S, s.buffer, size - 1)
    IN  IF size > 0 /\ (s.buffer = NULL \/ (oob /\ ub = "crash")) THEN Crashed(S)
        ELSE LET r == LoadPixels(X0, data, size, s.width, s.height, s.channelCount)
             IN  [r EXCEPT !.x = Touch(r.x, s.buffer)]

\* ImageAsset::~ImageAsset()
Destroy(X0) == Ok([ReleaseBuffer(X0) EXCEPT !.a = NoAsset])

(***************************************************************************)
(* The caller's inputs.                                                    *)
(***************************************************************************)
\* a caller's pixel block of n bytes: every byte differs from its neighbours, so
\* a misplaced byte shows
PixelData(base, n) == [i \in 1..n |-> base + i]

\* the channel count of the caller's raw images
RawChannels == {3}

\* the channel count stb reports for the files of the model (a grey image)
StbChannels == {1}

\* the pictures the files hold: every size for a file that decodes, one size
\* (1 x MaxDim) for a file whose decoding fails
GoodSizes == PosDims \X PosDims

BadSizes == {<<1, MaxDim>>}

SizesOf(stage) == IF stage = "none" THEN GoodSizes ELSE BadSizes

\* the decoder stages that fail in the model's runs: one before the header is
\* read and one after it, for each decoder, and for turbojpeg the transform as well
WebPStages == {"none", "info", "decode"}

JpegStages == {"none", "transform", "transformed", "header", "decompress"}

StbStages == {"none", "header", "body"}

WebPFiles ==
    UNION {{[magic |-> "RIFF....WEBP", w |-> d[1], h |-> d[2], c |-> 4, fail |-> s] :
              d \in SizesOf(s)} :
           s \in WebPStages}

JpegFiles ==
    UNION {{[magic |-> "FFD8FF", w |-> d[1], h |-> d[2], c |-> 3, fail |-> s] :
              d \in SizesOf(s)} :
           s \in JpegStages}

OtherFiles ==
    UNION {{[magic |-> "other", w |-> d[1], h |-> d[2], c |-> c, fail |-> s] :
              d \in SizesOf(s), c \in StbChannels} :
           s \in StbStages}

\* the file of no bytes: stb finds no image in it
EmptyFile == [magic |-> "", w |-> 1, h |-> MaxDim, c |-> 1, fail |-> "header"]

Files == WebPFiles \cup JpegFiles \cup OtherFiles \cup {EmptyFile}

\* the i/o steps that fail in the model's runs: one before the file's bytes are
\* allocated and one after
IoFaults == {"open", "read"}

\* a path: the file behind it and the i/o step that fails.  The files behind the
\* paths hold the 1 x MaxDim pictures (Load(fileData, size) is given every file).
\* When the detection fails the file is never decoded, when the branch's reading
\* fails only its signature was looked at: one file per signature stands for all.
Paths ==
    {[file |-> f, io1 |-> "none", io2 |-> "none"] : f \in {x \in Files : <<x.w, x.h>> \in BadSizes}}
    \cup {[file |-> f, io1 |-> io, io2 |-> "none"] :
            f \in {x \in OtherFiles : x.w = 1 /\ x.h = 1 /\ x.fail = "none"},
            io \in IoFaults}
    \cup {[file |-> f, io1 |-> "none", io2 |-> io] :
            f \in {x \in Files : x.w = 1 /\ x.h = 1 /\ x.fail = "none"},
            io \in IoFaults}

\* sizes and contents agree: buffer_ holds exactly width_ x height_ x channelCount_ bytes
Consistent(a, h) ==
    /\ a.buffer # NULL
    /\ a.width >= 0 /\ a.height >= 0
    /\ h[a.buffer].live
    /\ Len(h[a.buffer].bytes) = a.width * a.height * a.channelCount

\* the outcomes of undefined behaviour offered to a call: a call on a consistent
\* asset reads nothing outside its buffer, so one outcome stands for both
UbChoices(id) == IF Consistent(assets[id], heap) THEN {"garbage"} ELSE {"garbage", "crash"}

(***************************************************************************)
(* The actions: one public call on one asset.                              *)
(***************************************************************************)
Begin(id) ==
    [a |-> assets[id], heap |-> heap,
     mem |-> [mem EXCEPT !.allocs = 0, !.frees = 0, !.entered = <<>>,
                       !.open = {}, !.twice = FALSE]]

\* the call's arguments are kept when it did not end in SetError (a rejected call
\* leaves the asset as it was, whatever it was given); afterError and afterUnload
\* say what the asset's state came from: a call that set the error, an Unload
\* that released the buffer
Commit(id, op, args, rr) ==
    LET r == rr
    IN  /\ assets' = [assets EXCEPT ![id] = r.x.a]
        /\ heap' = r.x.heap
        /\ mem' = r.x.mem
        /\ lastOp' = [name |-> op, asset |-> id, outcome |-> r.out,
                      args |-> IF r.out = "error" THEN <<>> ELSE args,
                      afterError |-> assets[id].error # "",
                      afterUnload |-> lastOp.name = "Unload" /\ lastOp.outcome = "ok"
                                         /\ lastOp.asset = id]
        /\ ret' = r.ret
        /\ dest' = r.dest
        /\ crashed' = (r.out = "crash")
        /\ calls' = calls + 1

Callable(id) == ~crashed /\ calls < MaxCalls /\ assets[id].alive

DoLoadPixels(id, w, h, c) ==
    /\ Callable(id)
    /\ Commit(id, "LoadPixels", <<w, h, c>>,
              LoadPixels(Begin(id), PixelData(0, w * h * c), w * h * c, w, h, c))

DoLoadBytes(id, f) == Callable(id) /\ Commit(id, "Load", <<f>>, LoadBytes(Begin(id), f))

DoLoadPath(id, path) ==
    /\ Callable(id)
    /\ Commit(id, "Load", <<path.file>>,
              LoadPath(Begin(id), path.file, path.io1, path.io2))

DoGetWidth(id) == Callable(id) /\ Commit(id, "GetWidth", <<>>, GetWidth(Begin(id)))

DoGetHeight(id) == Callable(id) /\ Commit(id, "GetHeight", <<>>, GetHeight(Begin(id)))

DoGetChannelCount(id) ==
    Callable(id) /\ Commit(id, "GetChannelCount", <<>>, GetChannelCount(Begin(id)))

DoUnload(id) == Callable(id) /\ Commit(id, "Unload", <<>>, Unload(Begin(id)))

DoCopyTo(id) ==
    /\ Callable(id)
    /\ \E ub \in UbChoices(id) :
          Commit(id, "CopyTo", <<>>, CopyTo(Begin(id), ub))

DoClip(id, x, y, w, h) ==
    /\ Callable(id)
    /\ \E ub \in UbChoices(id) :
          Commit(id, "Clip", <<x, y, w, h>>, Clip(Begin(id), x, y, w, h, ub))

DoResize(id, w, h) ==
    /\ Callable(id)
    /\ \E ub \in UbChoices(id) :
          Commit(id, "Resize", <<w, h>>, Resize(Begin(id), w, h, ub))

\* c = a.Clone(): dst is the slot the caller keeps the returned pointer in.  When
\* Load throws inside Clone the new asset is lost to the caller (it owns no buffer).
DoClone(src, dst) ==
    /\ Callable(src)
    /\ src # dst
    /\ ~assets[dst].alive
    /\ \E ub \in UbChoices(src) :
          LET r == Clone(Begin(src), ub)
          IN  /\ assets' = [assets EXCEPT ![dst] = IF r.out = "ok" THEN r.x.a ELSE @]
              /\ heap' = r.x.heap
              /\ mem' = r.x.mem
              /\ lastOp' = [name |-> "Clone", asset |-> src, outcome |-> r.out,
                            args |-> <<>>, afterError |-> assets[src].error # "",
                            afterUnload |-> lastOp.name = "Unload" /\ lastOp.outcome = "ok"
                                               /\ lastOp.asset = src]
              /\ ret' = IF r.out = "ok" THEN dst ELSE "void"
              /\ dest' = "untouched"
              /\ crashed' = (r.out = "crash")
              /\ calls' = calls + 1

\* delete asset
DoDestroy(id) == Callable(id) /\ Commit(id, "delete", <<>>, Destroy(Begin(id)))

\* new ImageAsset
DoConstruct(id) ==
    /\ ~crashed
    /\ calls < MaxCalls
    /\ ~assets[id].alive
    /\ Commit(id, "new", <<>>, Ok([Begin(id) EXCEPT !.a = NewAsset]))

(***************************************************************************)
(* The specification: the caller owns asset "a" from the start, keeps the    *)
(* clones it asks for in slot "c", and makes any call on either.           *)
(***************************************************************************)
Init ==
    /\ assets = [id \in AssetIds |-> IF id = "a" THEN NewAsset ELSE NoAsset]
    /\ heap = [p \in Addrs |-> FreeBlock]
    /\ mem = [doubleFree |-> FALSE, badFree |-> FALSE, scalarDelete |-> FALSE, uaf |-> FALSE,
              allocs |-> 0, frees |-> 0, entered |-> <<>>, open |-> {}, twice |-> FALSE]
    /\ lastOp = [name |-> "new", asset |-> "a", outcome |-> "ok", args |-> <<>>,
                 afterError |-> FALSE, afterUnload |-> FALSE]
    /\ ret = "void"
    /\ dest = "untouched"
    /\ crashed = FALSE
    /\ calls = 0

Next ==
    \/ \E id \in AssetIds :
        \/ \E w \in Dims, h \in Dims, c \in RawChannels : DoLoadPixels(id, w, h, c)
        \/ \E f \in Files : DoLoadBytes(id, f)
        \/ \E path \in Paths : DoLoadPath(id, path)
        \/ DoGetWidth(id)
        \/ DoGetHeight(id)
        \/ DoGetChannelCount(id)
        \/ DoUnload(id)
        \/ DoCopyTo(id)
        \/ \E x \in Args, y \in Args, w \in Args, h \in Args : DoClip(id, x, y, w, h)
        \/ \E w \in Args, h \in Args : DoResize(id, w, h)
        \/ \E dst \in AssetIds : DoClone(id, dst)
        \/ DoDestroy(id)
    \/ DoConstruct("a")

Spec == Init /\ [][Next]_vars

(***************************************************************************)
(* Resize on larger images: the caller has loaded one raw image of up to   *)
(* MaxScale columns and resizes it once.                                   *)
(***************************************************************************)
\* the widest image Resize is given, and the widest it is asked for
MaxScale == 26

InitResize ==
    \E w \in 1..MaxScale, h \in PosDims, c \in RawChannels :
        /\ assets = [id \in AssetIds |->
                        IF id = "a"
                        THEN [NewAsset EXCEPT !.buffer = 1, !.width = w, !.height = h,
                                              !.channelCount = c]
                        ELSE NoAsset]
        /\ heap = [p \in Addrs |->
                      IF p = 1
                      THEN [live |-> TRUE, by |-> "new[]", bytes |-> PixelData(0, w * h * c)]
                      ELSE FreeBlock]
        /\ mem = [doubleFree |-> FALSE, badFree |-> FALSE, scalarDelete |-> FALSE, uaf |-> FALSE,
                  allocs |-> 1, frees |-> 0, entered |-> <<>>, open |-> {}, twice |-> FALSE]
        /\ lastOp = [name |-> "LoadPixels", asset |-> "a", outcome |-> "ok", args |-> <<w, h, c>>,
                     afterError |-> FALSE, afterUnload |-> FALSE]
        /\ ret = "void"
        /\ dest = "untouched"
        /\ crashed = FALSE
        /\ calls = MaxCalls - 1

NextResize == \E w \in 1..MaxScale, h \in PosDims : DoResize("a", w, h)

SpecResize == InitResize /\ [][NextResize]_vars

(***************************************************************************)
(* ScaleImage alone, as Resize(W, H) calls it on a W x H image: which byte *)
(* of the source a byte of the destination is read from.  Its images are   *)
(* too large to lay out, up to the first width a float cannot count.       *)
(***************************************************************************)
\* 2^24 + 2: the columns up to 2^24 + 1 convert to float exactly or round to
\* an even neighbour below them
WideWidth == 2^24 + 2

\* ScaleImage<3> and ScaleImage<4>
ScaleChannels == {3, 4}

ScaleWidths == (1..MaxScale) \cup {WideWidth}

\* the columns of a width that are looked at
ScaleColumns(width) == {ix \in (0..(MaxScale - 1)) \cup {WideWidth - 1} : ix < width}

ScaleImageSameSize(width, height, PixelSize, k) ==
    /\ lastOp.name = "new"
    /\ lastOp' = [name |-> "ScaleImage", asset |-> "a", outcome |-> "ok",
                  args |-> <<width, height, PixelSize, k>>,
                  afterError |-> FALSE, afterUnload |-> FALSE]
    /\ ret' = ScaleSrcIndex(width, height, width, height, PixelSize, k)
    /\ calls' = calls + 1
    /\ UNCHANGED <<assets, heap, mem, dest, crashed>>

NextScaleImage ==
    \E width \in ScaleWidths, height \in PosDims, PixelSize \in ScaleChannels :
        \E ix \in ScaleColumns(width), iy \in 0..(height - 1), i \in 0..(PixelSize - 1) :
            ScaleImageSameSize(width, height, PixelSize, (width * iy + ix) * PixelSize + i)

SpecScaleImage == Init /\ [][NextScaleImage]_vars

(***************************************************************************)
(* The properties.                                                         *)
(***************************************************************************)
\* the machine state a call on asset id would start from
At(id) == [a |-> assets[id], heap |-> heap, mem |-> mem]

\* the asset holds a pixel buffer
Loaded(a) == a.alive /\ a.buffer # NULL

\* C1 (failure atomicity of loads): a Load, of any overload, that returns with an
\* error set on an asset that held a loaded image leaves the asset as it was: the
\* same buffer with the same bytes, the same width, height and channel count; and
\* the error is not empty.
C1_FailureAtomicity ==
    [][\A id \in AssetIds :
          ( /\ lastOp'.name \in {"Load", "LoadPixels"}
            /\ lastOp'.asset = id
            /\ lastOp'.outcome = "error"
            /\ Loaded(assets[id]) )
          => /\ assets'[id].buffer = assets[id].buffer
             /\ heap'[assets[id].buffer] = heap[assets[id].buffer]
             /\ assets'[id].width = assets[id].width
             /\ assets'[id].height = assets[id].height
             /\ assets'[id].channelCount = assets[id].channelCount
             /\ assets'[id].error # ""]_vars

\* C2 (precondition enforcement): on an asset that holds no buffer, GetWidth,
\* GetHeight and GetChannelCount return -1; Clip, Resize, Unload and CopyTo do
\* nothing (no allocation, no release, no write to the destination, no change of
\* the asset); and after each of them the error is "image asset is not loaded".
C2_NotLoadedRejected ==
    [][\A id \in AssetIds :
          ( /\ lastOp'.asset = id
            /\ lastOp'.name \in {"GetWidth", "GetHeight", "GetChannelCount",
                                 "Clip", "Resize", "Unload", "CopyTo"}
            /\ assets[id].alive
            /\ assets[id].buffer = NULL )
          => /\ lastOp'.outcome = "error"
             /\ assets' = [assets EXCEPT ![id].error = ERROR_STR_IMAGE_NOT_LOADED]
             /\ heap' = heap
             /\ mem'.allocs = 0 /\ mem'.frees = 0
             /\ dest' = "untouched"
             /\ (lastOp'.name \in {"GetWidth", "GetHeight", "GetChannelCount"} => ret' = -1)
             /\ (lastOp'.name \in {"Clip", "Resize", "Unload", "CopyTo"} => ret' = "void")]_vars

\* GetWidth was called on an asset without a buffer: it returned -1 and set the error
C2_Witness ==
    /\ lastOp.name = "GetWidth"
    /\ assets[lastOp.asset].buffer = NULL
    /\ ret = -1
    /\ assets[lastOp.asset].error = ERROR_STR_IMAGE_NOT_LOADED

\* the public calls of C3, and the ones among them that clear the error on entry
PublicCalls ==
    {"Load", "LoadPixels", "GetWidth", "GetHeight", "GetChannelCount",
     "Clip", "Resize", "Unload", "CopyTo", "Clone"}

ClearingCalls == PublicCalls \ {"Clone"}

ClipInside(a, x, y, w, h) ==
    /\ x >= 0 /\ y >= 0 /\ w >= 0 /\ h >= 0
    /\ x + w <= a.width
    /\ y + h <= a.height

\* the bytes C4 asks of the clipped buffer: rows [H - y - h, H - y) of the old
\* buffer, and of each row the pixels [x, x + w)
ClipExpected(a, old, x, y, w, h) ==
    [k \in 1..(w * h * a.channelCount) |->
        LET row  == (k - 1) \div (w * a.channelCount)
            byte == (k - 1) % (w * a.channelCount)
        IN  old[(a.height - y - h + row) * (a.width * a.channelCount)
                + x * a.channelCount + byte + 1]]

\* C4 (Clip correctness): after Clip(x, y, w, h) with x, y, w, h >= 0, x + w <= W,
\* y + h <= H on a loaded W x H image of C channels, CopyTo yields w*h*C bytes,
\* the rows [H - y - h, H - y) and columns [x, x + w) of the old buffer, and
\* GetWidth() = w, GetHeight() = h, GetChannelCount() = C.
C4_ClipCorrect ==
    [][LET id == lastOp'.asset
           a  == assets[id]
       IN  ( /\ lastOp'.name = "Clip"
             /\ lastOp'.outcome # "error"
             /\ Consistent(a, heap)
             /\ ClipInside(a, lastOp'.args[1], lastOp'.args[2], lastOp'.args[3], lastOp'.args[4]) )
           => LET x == lastOp'.args[1]
                  y == lastOp'.args[2]
                  w == lastOp'.args[3]
                  h == lastOp'.args[4]
                  X == [a |-> assets'[id], heap |-> heap', mem |-> mem']
              IN  /\ lastOp'.outcome = "ok"
                  /\ GetWidth(X).ret = w
                  /\ GetHeight(X).ret = h
                  /\ GetChannelCount(X).ret = a.channelCount
                  /\ CopyTo(X, "garbage").out = "ok"
                  /\ CopyTo(X, "garbage").dest
                         = ClipExpected(a, heap[a.buffer].bytes, x, y, w, h)]_vars

\* C5 (Clip range rejection): on a loaded W x H image, a Clip with x < 0, y < 0,
\* w < 0, h < 0, x + w > W or y + h > H is rejected: the asset and its buffer stay
\* as they were and the error is "range exceeds image size".  (A call that is not
\* rejected has its rectangle inside the image.)
C5_ClipRangeRejected ==
    [][LET id == lastOp'.asset
           a  == assets[id]
       IN  (lastOp'.name = "Clip" /\ Consistent(a, heap))
           => IF lastOp'.outcome = "error"
              THEN /\ assets' = [assets EXCEPT ![id].error = ERROR_STR_IMAGE_SIZE_OVERFLOW]
                   /\ heap' = heap
              ELSE ClipInside(a, lastOp'.args[1], lastOp'.args[2],
                              lastOp'.args[3], lastOp'.args[4])]_vars

\* no two assets hold the same block
NoSharedBuffer ==
    \A i \in AssetIds, j \in AssetIds :
        (i # j /\ Loaded(assets[i]) /\ Loaded(assets[j])) => assets[i].buffer # assets[j].buffer

\* C6 (Clone independence): an asset and its clone never hold the same buffer, and
\* a call on one of them leaves the other as it was: its buffer, the bytes in it,
\* its width, height, channel count and error.
C6_CloneIndependence ==
    [][/\ NoSharedBuffer'
       /\ \A id \in AssetIds :
             (assets[id].alive /\ lastOp'.asset # id /\ lastOp'.name # "Clone")
             => /\ assets'[id] = assets[id]
                /\ (assets[id].buffer # NULL
                       => heap'[assets[id].buffer] = heap[assets[id].buffer])]_vars

\* the clone of a loaded asset was clipped, and the source still holds its image
C6_Witness ==
    /\ lastOp.name = "Clip" /\ lastOp.asset = "c" /\ lastOp.outcome = "ok"
    /\ Consistent(assets["a"], heap)
    /\ Consistent(assets["c"], heap)
    /\ assets["a"].width # assets["c"].width
    /\ heap[assets["a"].buffer].bytes
           = PixelData(0, assets["a"].width * assets["a"].height * assets["a"].channelCount)

\* C7 (raw-pixel Load always succeeds): after Load(pixelData, size, w, h, c) with
\* a non-null pixelData and size = w*h*c, the asset is loaded, the error is empty,
\* GetWidth() = w, GetHeight() = h, GetChannelCount() = c, and the buffer is a
\* copy of the size bytes given.
C7_RawLoadSucceeds ==
    lastOp.name = "LoadPixels"
    => LET X == At(lastOp.asset)
       IN  /\ lastOp.outcome = "ok"
           /\ X.a.error = ""
           /\ Loaded(X.a)
           /\ GetWidth(X).ret = lastOp.args[1]
           /\ GetHeight(X).ret = lastOp.args[2]
           /\ GetChannelCount(X).ret = lastOp.args[3]
           /\ CopyTo(X, "garbage").dest
                  = PixelData(0, lastOp.args[1] * lastOp.args[2] * lastOp.args[3])

\* the assets that hold block p
Owners(p) == {id \in AssetIds : assets[id].alive /\ assets[id].buffer = p}

\* C8 (single live buffer, released exactly once): every block that is allocated
\* is the buffer of exactly one asset, every buffer an asset holds is allocated,
\* no block is released twice and none is used after its release: a buffer that
\* is replaced, unloaded or owned at destruction is released once and never again.
C8_SingleLiveBuffer ==
    /\ ~mem.doubleFree
    /\ ~mem.uaf
    /\ \A p \in Addrs : Cardinality(Owners(p)) = (IF heap[p].live THEN 1 ELSE 0)
    /\ \A id \in AssetIds : ~assets[id].alive => assets[id].buffer = NULL

\* a Clip replaced the buffer: one block allocated, the old one released
C8_Witness ==
    /\ lastOp.name = "Clip" /\ lastOp.outcome = "ok"
    /\ Loaded(assets[lastOp.asset])
    /\ mem.allocs = 1 /\ mem.frees = 1

\* C9 (origin tag): a buffer tagged Stb was allocated by stb and one tagged Self
\* by new[], and every buffer was released by the routine of its origin.
C9_OriginTag ==
    /\ ~mem.badFree
    /\ \A id \in AssetIds :
          (Loaded(assets[id]) /\ heap[assets[id].buffer].live)
          => /\ assets[id].source \in {"Self", "Stb"}
             /\ (assets[id].source = "Stb") = (heap[assets[id].buffer].by = "stbi_malloc")
             /\ (assets[id].source = "Self") = (heap[assets[id].buffer].by = "new[]")

\* a buffer that came from stb was unloaded
C9_Witness ==
    /\ lastOp.name = "Unload" /\ lastOp.outcome = "ok"
    /\ assets[lastOp.asset].source = "Stb"
    /\ mem.frees = 1

\* the buffer of asset id holds width x height x channelCount bytes
MetadataDescribesBuffer(id) ==
    Loaded(assets[id])
    => /\ heap[assets[id].buffer].live
       /\ Len(heap[assets[id].buffer].bytes)
              = assets[id].width * assets[id].height * assets[id].channelCount

\* C10 (metadata describes the buffer): whenever an asset is loaded its buffer
\* holds exactly GetWidth() x GetHeight() x GetChannelCount() bytes, and a step
\* that changes the width, height or channel count of a loaded asset installs
\* the buffer they describe.
C10_MetadataMatchesBuffer ==
    [][\A id \in AssetIds :
          /\ MetadataDescribesBuffer(id)'
          /\ ( /\ Loaded(assets[id])
               /\ Loaded(assets'[id])
               /\ <<assets'[id].width, assets'[id].height, assets'[id].channelCount>>
                      # <<assets[id].width, assets[id].height, assets[id].channelCount>> )
             => /\ mem'.allocs >= 1
                /\ ~(assets'[id].buffer = assets[id].buffer
                        /\ heap'[assets[id].buffer] = heap[assets[id].buffer])]_vars

\* what a caller can observe of the asset of machine state X: whether it is
\* loaded, what the getters return, the bytes of its buffer, its error message
Observed(X) ==
    [loaded       |-> X.a.buffer # NULL,
     width        |-> GetWidth(X).ret,
     height       |-> GetHeight(X).ret,
     channelCount |-> GetChannelCount(X).ret,
     bytes        |-> IF X.a.buffer # NULL THEN X.heap[X.a.buffer].bytes ELSE <<>>,
     error        |-> X.a.error]

\* the inputs of the three Load overloads
LoadInputs ==
    {[kind |-> "pixels", w |-> d[1], h |-> d[2], c |-> c] : d \in Dims \X Dims, c \in RawChannels}
    \cup {[kind |-> "bytes", file |-> f] : f \in Files}
    \cup {[kind |-> "path", path |-> p] : p \in Paths}

\* the Load of input in, on machine state X
ApplyLoad(X, in) ==
    IF in.kind = "pixels"
    THEN LoadPixels(X, PixelData(0, in.w * in.h * in.c), in.w * in.h * in.c, in.w, in.h, in.c)
    ELSE IF in.kind = "bytes" THEN LoadBytes(X, in.file)
    ELSE LoadPath(X, in.path.file, in.path.io1, in.path.io2)

\* C11 (Unload/reload equivalence): after a successful Unload, whatever came
\* before it, a Load of any input ends as the same Load on a freshly constructed
\* asset ends, and leaves the same observable state: loaded or not, width,
\* height, channel count, buffer contents, error message.
C11_UnloadReload ==
    (lastOp.name = "Unload" /\ lastOp.outcome = "ok")
    => LET X == Begin(lastOp.asset)
           F == [X EXCEPT !.a = NewAsset]
       IN  \A in \in LoadInputs :
              /\ ApplyLoad(X, in).out = ApplyLoad(F, in).out
              /\ Observed(ApplyLoad(X, in).x) = Observed(ApplyLoad(F, in).x)

\* an asset that had been unloaded was loaded again
C11_Witness ==
    /\ lastOp.name \in {"Load", "LoadPixels"}
    /\ lastOp.afterUnload
    /\ lastOp.outcome = "ok"
    /\ Loaded(assets[lastOp.asset])

\* C12 (Resize identity): Resize(W, H) on a W x H image of 3 or 4 channels
\* leaves the buffer as it was: every byte of the new buffer is read from the
\* same place of the old one.
C12_ResizeIdentity ==
    lastOp.name = "ScaleImage" => ret = lastOp.args[4]

\* the bytes C15 asks of the resized buffer: pixel (ix, iy) holds the bytes of
\* the old pixel (floor(ix * srcW / destW), floor(iy * srcH / destH))
ResizeExpected(a, old, destW, destH) ==
    [k \in 1..(destW * destH * a.channelCount) |->
        LET pixel == (k - 1) \div a.channelCount
            i     == (k - 1) % a.channelCount
            ix    == pixel % destW
            iy    == pixel \div destW
            sx    == (ix * a.width) \div destW
            sy    == (iy * a.height) \div destH
        IN  old[(sy * a.width + sx) * a.channelCount + i + 1]]

\* C15 (Resize nearest-neighbour mapping): after Resize(destW, destH) with
\* destW > 0 and destH > 0 on a loaded srcW x srcH image of 3 or 4 channels,
\* every pixel (ix, iy) of the buffer holds the bytes of the old pixel
\* (floor(ix*srcW/destW), floor(iy*srcH/destH)); width and height are destW and
\* destH and the channel count is unchanged.
C15_ResizeNearest ==
    [][LET id == lastOp'.asset
           a  == assets[id]
       IN  ( /\ lastOp'.name = "Resize"
             /\ lastOp'.outcome # "error"
             /\ Consistent(a, heap)
             /\ a.width > 0 /\ a.height > 0
             /\ a.channelCount \in {3, 4}
             /\ lastOp'.args[1] > 0 /\ lastOp'.args[2] > 0 )
           => /\ lastOp'.outcome = "ok"
              /\ Loaded(assets'[id])
              /\ assets'[id].width = lastOp'.args[1]
              /\ assets'[id].height = lastOp'.args[2]
              /\ assets'[id].channelCount = a.channelCount
              /\ heap'[assets'[id].buffer].bytes
                     = ResizeExpected(a, heap[a.buffer].bytes, lastOp'.args[1], lastOp'.args[2])]_vars

\* C13 (Unload contract): Unload on a loaded asset releases the buffer, sets
\* width, height and channel count to 0 and leaves the asset unloaded with no
\* error; an Unload right after it fails with "image asset is not loaded" and
\* changes nothing else.
C13_UnloadContract ==
    [][LET id == lastOp'.asset
           a  == assets[id]
       IN  /\ (lastOp'.name = "Unload" /\ Loaded(a))
              => /\ lastOp'.outcome = "ok"
                 /\ assets'[id].buffer = NULL
                 /\ ~heap'[a.buffer].live
                 /\ mem'.frees = 1 /\ mem'.allocs = 0
                 /\ assets'[id].width = 0
                 /\ assets'[id].height = 0
                 /\ assets'[id].channelCount = 0
                 /\ assets'[id].error = ""
           /\ ( /\ lastOp'.name = "Unload"
                /\ lastOp.name = "Unload" /\ lastOp.outcome = "ok" /\ lastOp.asset = id )
              => /\ lastOp'.outcome = "error"
                 /\ assets' = [assets EXCEPT ![id].error = ERROR_STR_IMAGE_NOT_LOADED]
                 /\ heap' = heap
                 /\ mem'.frees = 0 /\ mem'.allocs = 0]_vars

\* Unload was called twice in a row: the second call failed
C13_Witness ==
    /\ lastOp.name = "Unload"
    /\ lastOp.afterUnload
    /\ lastOp.outcome = "error"
    /\ assets[lastOp.asset].error = ERROR_STR_IMAGE_NOT_LOADED
    /\ assets[lastOp.asset].width = 0

\* the number the decoder of file f starts its picture's bytes from
DecoderBase(f) ==
    IF IsWebPFileData(f, FileSize(f)) THEN 100
    ELSE IF IsJpegFileData(f, FileSize(f)) THEN 150
    ELSE 50

\* row r (0 = top) of the picture of file f, as its decoder hands it out
PictureRow(f, c, r) == [j \in 1..(f.w * c) |-> PictureByte(f, c, DecoderBase(f), r, j - 1)]

\* row r (0 = first) of the buffer of asset a
BufferRow(a, h, r) ==
    [j \in 1..(a.width * a.channelCount) |->
        h[a.buffer].bytes[r * (a.width * a.channelCount) + j]]

Branch(fn) ==
    IF fn \in {"LoadWebP", "LoadWebPFromFile"} THEN "WebP"
    ELSE IF fn \in {"LoadJpeg", "LoadJpegFromFile"} THEN "JPEG"
    ELSE "generic"

\* the decode branches a call went into
Branches(entered) == {Branch(entered[i]) : i \in 1..Len(entered)}

\* the branch the first min(16, size) bytes of a file stand for
Classified(f) ==
    LET size == FileSize(f)
        n    == IF size < 16 THEN size ELSE 16
    IN  IF n >= 12 /\ f.magic = "RIFF....WEBP" THEN "WebP"
        ELSE IF n >= 3 /\ f.magic = "FFD8FF" THEN "JPEG"
        ELSE "generic"

\* the errors the format detection of Load(path) sets once the file is open
DetectErrors ==
    {IoError(io, what) : io \in {"seekEnd", "empty", "seekBegin", "read"},
                         what \in {"failed to detect format", "Failed to detect format"}}

\* the paths whose file the format detection opens, seeks and reads without a fault
DetectablePaths == {path \in Paths : path.io1 = "none"}

\* C16 as stated: every Load(fileData, size) goes into exactly the branch its
\* first min(16, size) bytes stand for, and so does every Load(path) of a file
\* the detection can read, whatever the file's bytes (none included), without a
\* detection error.
C16_DispatchEveryInput ==
    [][lastOp'.name = "Load" =>
         \A id \in {lastOp'.asset} :
            /\ \A f \in Files :
                  DoLoadBytes(id, f) => Branches(mem'.entered) = {Classified(f)}
            /\ \A path \in DetectablePaths :
                  DoLoadPath(id, path) =>
                     /\ Branches(mem'.entered) = {Classified(path.file)}
                     /\ assets'[id].error \notin DetectErrors]_vars

\* C16, amended: every Load(fileData, size) goes into exactly the branch its first
\* min(16, size) bytes stand for; every Load(path) of a file of at least one byte
\* that the detection can read goes into exactly that same branch, without a
\* detection error; Load(path) of the empty file goes into no branch and fails
\* with the detection's "empty file" error.
C16_FormatDispatch ==
    [][lastOp'.name = "Load" =>
         \A id \in {lastOp'.asset} :
            /\ \A f \in Files :
                  DoLoadBytes(id, f) => Branches(mem'.entered) = {Classified(f)}
            /\ \A path \in DetectablePaths :
                  DoLoadPath(id, path) =>
                     IF FileSize(path.file) > 0
                     THEN /\ Branches(mem'.entered) = {Classified(path.file)}
                          /\ assets'[id].error \notin DetectErrors
                     ELSE /\ mem'.entered = <<>>
                          /\ assets'[id].error
                                = IoError("empty", "failed to detect format")]_vars

\* a path load went through the WebP file branch into the WebP decoder
C16_Witness ==
    /\ lastOp.name = "Load"
    /\ lastOp.outcome = "ok"
    /\ mem.entered = <<"LoadWebPFromFile", "LoadWebP">>

(***************************************************************************)
(* Scoped handles                                                          *)
(***************************************************************************)
\* C17: when a Load(path) or Load(fileData, size) has returned, however it ended,
\* every file handle, decoder handle and decoder-allocated block the call acquired
\* has been released, and none was released twice.
C17_ScopedHandles ==
    (lastOp.name = "Load" /\ lastOp.outcome \in {"ok", "error"}) =>
        mem.open = {} /\ ~mem.twice

(***************************************************************************)
(* Clone fidelity                                                          *)
(***************************************************************************)
\* C18: Clone() on a loaded asset returns a new asset that is loaded, has no
\* error, and has the width, height, channel count of the source and the same
\* width x height x channelCount bytes; the source's buffer, bytes, metadata and
\* error are as they were.
C18_CloneFidelity ==
    [][(lastOp'.name = "Clone" /\ Loaded(assets[lastOp'.asset])) =>
         LET s == assets[lastOp'.asset]
         IN  /\ lastOp'.outcome = "ok"
             /\ ret' \in AssetIds
             /\ Loaded(assets'[ret'])
             /\ assets'[ret'].error = ""
             /\ assets'[ret'].width = s.width
             /\ assets'[ret'].height = s.height
             /\ assets'[ret'].channelCount = s.channelCount
             /\ Len(heap'[assets'[ret'].buffer].bytes)
                    = s.width * s.height * s.channelCount
             /\ heap'[assets'[ret'].buffer].bytes = heap[s.buffer].bytes
             /\ assets'[lastOp'.asset] = s
             /\ heap'[s.buffer] = heap[s.buffer]]_vars

(***************************************************************************)
(* Clip and Resize keep the asset loaded                                   *)
(***************************************************************************)
\* C19: every Clip or Resize on a loaded asset that returns without an error
\* (a requested width or height of 0 included) leaves the asset loaded: a
\* following GetWidth() returns the requested width and sets no error.
C19_TransformKeepsLoaded ==
    [][(/\ lastOp'.name \in {"Clip", "Resize"}
        /\ lastOp'.outcome = "ok"
        /\ Loaded(assets[lastOp'.asset]))
       => LET X     == [a |-> assets'[lastOp'.asset], heap |-> heap', mem |-> mem']
              width == IF lastOp'.name = "Clip" THEN lastOp'.args[3] ELSE lastOp'.args[1]
          IN  /\ Loaded(X.a)
              /\ GetWidth(X).out = "ok"
              /\ GetWidth(X).ret = width]_vars

(***************************************************************************)
(* The -1 of GetWidth and GetHeight                                        *)
(***************************************************************************)
\* C20: a loaded asset has width >= 0 and height >= 0, whatever Clip and Resize
\* calls (negative arguments included) it went through, so GetWidth() and
\* GetHeight() return -1 only when they set "image asset is not loaded".
C20_SentinelUnambiguous ==
    \A id \in AssetIds :
        (assets[id].alive /\ ~crashed) =>
            /\ Loaded(assets[id]) => assets[id].width >= 0 /\ assets[id].height >= 0
            /\ GetWidth(At(id)).ret = -1
                  => GetWidth(At(id)).x.a.error = ERROR_STR_IMAGE_NOT_LOADED
            /\ GetHeight(At(id)).ret = -1
                  => GetHeight(At(id)).x.a.error = ERROR_STR_IMAGE_NOT_LOADED
====
